---- MODULE Spec2Model ----
(***************************************************************************)
(* The commands of the evm module's CLI, one run of a RunE handler each,    *)
(* from the arguments to the returned error: `tx raw` (Spec), the four     *)
(* queries (QuerySpec) and the two mapping transactions (MappingSpec).     *)
(* Every call a handler makes to a collaborator (codec, query service,     *)
(* prompt, printer, broadcaster) is appended to `calls`, so that the order *)
(* and the number of the calls of a run are part of the state.             *)
(***************************************************************************)
EXTENDS Integers, Sequences, FiniteSets, TLC

VARIABLES
    cmd,        \* the command that runs
    args,       \* its positional arguments
    address,    \* a query's normalized address, <<>> until accountToHex returned
    key,        \* a storage query's key hash, <<>> until formatKeyToHash returned
    req,        \* a query's request object, <<>> until it is built
    pc,         \* position of the run inside RunE
    arg,        \* args[0], a sequence of characters
    flags,      \* the command-line flags --generate-only and --yes
    data,       \* the bytes hexutil.Decode returned
    msg,        \* the MsgEthereumTx, <<>> until unmarshalled
    clientCtx,  \* the client context, <<>> until GetClientTxContext returned
    rsp,        \* the Params response, <<>> until the query returned
    tx,         \* the built envelope, <<>> until BuildTx returned
    txBytes,    \* the binary-encoded envelope, <<>> until TxEncoder returned
    res,        \* the broadcast response, <<>> until BroadcastTx returned
    calls,      \* the collaborator calls of the run, in order
    ret         \* the error RunE returned (Nil for none), Pending while it runs

vars == <<cmd, args, address, key, req, pc, arg, flags, data, msg, clientCtx, rsp, tx, txBytes, res, calls, ret>>

----------------------------------------------------------------------------
(* Bounds of the model. *)

\* number of fee denominations the query service may answer with
NumDenoms == 2
\* number of distinct errors a remote call may fail with
NumRemoteErrors == 2

DenomNames == <<"aphoton", "aevmos", "orai">>
CauseNames == <<"connection refused", "height pruned", "deadline exceeded">>

\* an error value: its kind and its cause text; Nil is "no error"
Err(kind, cause) == [kind |-> kind, cause |-> cause]
Nil == Err("nil", "")
Pending == Err("pending", "")

Denoms == {DenomNames[i] : i \in 1..NumDenoms}
RemoteCauses == {CauseNames[i] : i \in 1..NumRemoteErrors}

----------------------------------------------------------------------------
(* The hex argument and hexutil.Decode. *)

HexDigits == <<"0", "1", "2", "3", "4", "5", "6", "7", "8", "9",
               "a", "b", "c", "d", "e", "f">>

UpperHexDigits == <<"0", "1", "2", "3", "4", "5", "6", "7", "8", "9",
                    "A", "B", "C", "D", "E", "F">>

IsHexDigit(c) ==
    \E i \in DOMAIN HexDigits : HexDigits[i] = c \/ UpperHexDigits[i] = c

Nibble(c) ==
    (CHOOSE i \in DOMAIN HexDigits : HexDigits[i] = c \/ UpperHexDigits[i] = c) - 1

Has0xPrefix(s) == Len(s) >= 2 /\ s[1] = "0" /\ s[2] \in {"x", "X"}

\* the error hexutil.Decode reports for s, "nil" when s decodes
HexDecodeErr(s) ==
    IF Len(s) = 0 THEN "empty hex string"
    ELSE IF ~Has0xPrefix(s) THEN "hex string without 0x prefix"
    ELSE IF (Len(s) - 2) % 2 # 0 THEN "hex string of odd length"
    ELSE IF \E i \in 3..Len(s) : ~IsHexDigit(s[i]) THEN "invalid hex string"
    ELSE "nil"

\* the bytes hexutil.Decode returns for a string it accepts
HexDecode(s) ==
    [i \in 1..((Len(s) - 2) \div 2) |->
        16 * Nibble(s[2 * i + 1]) + Nibble(s[2 * i + 2])]

\* the arguments the runs are started with
Args ==
    { <<>>,
      <<"0", "x", "z", "z">>,
      <<"a", "1", "b", "2">>,
      <<"0", "x", "0">>,
      <<"0", "x", "0", "1">>,
      <<"0", "x", "0", "1", "a", "2", "0", "0">>,
      <<"0", "x", "0", "1", "a", "2", "b", "3">>,
      <<"0", "x", "0", "2", "c", "4", "0", "1">>,
      <<"0", "X", "0", "2", "C", "4", "0", "1">> }

----------------------------------------------------------------------------
(* The foreign transaction and the envelope (x/evm/types). *)

\* the wire form of a foreign transaction: gas, payload, signature
TxFields == 3

UnmarshalErr(bytes) ==
    IF Len(bytes) # TxFields
    THEN Err("DeserializationError", "wrong field count")
    ELSE Nil

UnmarshalBinary(bytes) ==
    [gas |-> bytes[1], payload |-> bytes[2], sig |-> bytes[3]]

ValidateBasicErr(m) ==
    IF m.sig = 0 THEN Err("ValidationError", "empty signature") ELSE Nil

BuildTx(m, denom) ==
    [msgs |-> <<m>>, fee |-> [denom |-> denom, amount |-> m.gas], memo |-> ""]

\* the envelope's canonical text form and its binary form
TxJSONEncoder(t) == [format |-> "json", body |-> t]
TxEncoder(t) == [format |-> "binary", body |-> t]

\* the line the command writes to the diagnostic stream when it cancels
CanceledText == [format |-> "text", body |-> "canceled transaction"]

----------------------------------------------------------------------------
(* The call log. *)

\* one collaborator call: its name, what it was given, whether it succeeded,
\* and what it returned (the result, or the error when it failed)
Call(op, in, ok, out) == [op |-> op, in |-> in, ok |-> ok, out |-> out]

Log(c) == calls' = Append(calls, c)

CallsOf(op) == {i \in DOMAIN calls : calls[i].op = op}

Count(op) == Cardinality(CallsOf(op))

RPCOps == {"Params", "BroadcastTx"}

RPCCalls == {i \in DOMAIN calls : calls[i].op \in RPCOps}

Return(err) == pc' = "done" /\ ret' = err

----------------------------------------------------------------------------

Init ==
    /\ cmd = "raw"
    /\ pc = "decode"
    /\ arg \in Args
    /\ args = <<arg>>
    /\ address = <<>>
    /\ key = <<>>
    /\ req = <<>>
    /\ flags \in [generateOnly : BOOLEAN, yes : BOOLEAN]
    /\ data = <<>>
    /\ msg = <<>>
    /\ clientCtx = <<>>
    /\ rsp = <<>>
    /\ tx = <<>>
    /\ txBytes = <<>>
    /\ res = <<>>
    /\ calls = <<>>
    /\ ret = Pending

\* DecodeHex with the return on a decode error left out
DecodeHex_NoReturn ==
    /\ pc = "decode"
    /\ data' = IF HexDecodeErr(arg) # "nil" THEN <<>> ELSE HexDecode(arg)
    /\ pc' = "unmarshal"
    /\ UNCHANGED <<cmd, args, address, key, req, arg, flags, msg, clientCtx, rsp, tx, txBytes, res, calls, ret>>

\* data, err := hexutil.Decode(args[0])
DecodeHex ==
    /\ pc = "decode"
    /\ IF HexDecodeErr(arg) # "nil"
       THEN /\ Return(Err("failed to decode ethereum tx hex bytes", HexDecodeErr(arg)))
            /\ UNCHANGED data
       ELSE /\ data' = HexDecode(arg)
            /\ pc' = "unmarshal"
            /\ UNCHANGED ret
    /\ UNCHANGED <<cmd, args, address, key, req, arg, flags, msg, clientCtx, rsp, tx, txBytes, res, calls>>

\* msg := &types.MsgEthereumTx{}; msg.UnmarshalBinary(data)
Unmarshal ==
    /\ pc = "unmarshal"
    /\ IF UnmarshalErr(data) # Nil
       THEN /\ Return(UnmarshalErr(data))
            /\ UNCHANGED msg
       ELSE /\ msg' = <<UnmarshalBinary(data)>>
            /\ pc' = "validate"
            /\ UNCHANGED ret
    /\ UNCHANGED <<cmd, args, address, key, req, arg, flags, data, clientCtx, rsp, tx, txBytes, res, calls>>

\* Validate with the validation moved behind the Params query: the error is
\* still returned, but only after the query was issued
Validate_AfterParams ==
    /\ pc = "validate"
    /\ IF ValidateBasicErr(msg[1]) # Nil
       THEN /\ Log(Call("Params", "QueryParamsRequest", TRUE, DenomNames[1]))
            /\ Return(ValidateBasicErr(msg[1]))
       ELSE pc' = "getctx" /\ UNCHANGED <<ret, calls>>
    /\ UNCHANGED <<cmd, args, address, key, req, arg, flags, data, msg, clientCtx, rsp, tx, txBytes, res>>

\* msg.ValidateBasic()
Validate ==
    /\ pc = "validate"
    /\ IF ValidateBasicErr(msg[1]) # Nil
       THEN Return(ValidateBasicErr(msg[1]))
       ELSE pc' = "getctx" /\ UNCHANGED ret
    /\ UNCHANGED <<cmd, args, address, key, req, arg, flags, data, msg, clientCtx, rsp, tx, txBytes, res, calls>>

\* clientCtx, err := client.GetClientTxContext(cmd)
GetClientTxContext ==
    /\ pc = "getctx"
    /\ \/ /\ Return(Err("ClientContextError", "bad flags"))
          /\ UNCHANGED clientCtx
       \/ /\ clientCtx' = <<[GenerateOnly |-> flags.generateOnly,
                             SkipConfirm |-> flags.yes]>>
          /\ pc' = "params"
          /\ UNCHANGED ret
    /\ UNCHANGED <<cmd, args, address, key, req, arg, flags, data, msg, rsp, tx, txBytes, res, calls>>

\* QueryParams falling back to a default denomination when the query fails
QueryParams_Fallback ==
    /\ pc = "params"
    /\ \/ \E cause \in RemoteCauses :
            /\ Log(Call("Params", "QueryParamsRequest", FALSE,
                        Err("RemoteQueryError", cause)))
            /\ rsp' = <<[Params |-> [EvmDenom |-> DenomNames[1]]]>>
       \/ \E denom \in Denoms :
            /\ Log(Call("Params", "QueryParamsRequest", TRUE, denom))
            /\ rsp' = <<[Params |-> [EvmDenom |-> denom]]>>
    /\ pc' = "build"
    /\ UNCHANGED <<cmd, args, address, key, req, arg, flags, data, msg, clientCtx, tx, txBytes, res, ret>>

\* rsp, err := rpctypes.NewQueryClient(clientCtx).Params(...)
QueryParams ==
    /\ pc = "params"
    /\ \/ \E cause \in RemoteCauses :
            /\ Log(Call("Params", "QueryParamsRequest", FALSE, Err("RemoteQueryError", cause)))
            /\ Return(Err("RemoteQueryError", cause))
            /\ UNCHANGED rsp
       \/ \E denom \in Denoms :
            /\ Log(Call("Params", "QueryParamsRequest", TRUE, denom))
            /\ rsp' = <<[Params |-> [EvmDenom |-> denom]]>>
            /\ pc' = "build"
            /\ UNCHANGED ret
    /\ UNCHANGED <<cmd, args, address, key, req, arg, flags, data, msg, clientCtx, tx, txBytes, res>>

\* BuildEnvelope with a fixed denomination in place of the queried one
BuildEnvelope_FixedDenom ==
    /\ pc = "build"
    /\ \/ /\ Return(Err("BuildTxError", "builder rejected the message"))
          /\ UNCHANGED tx
       \/ /\ tx' = <<BuildTx(msg[1], DenomNames[1])>>
          /\ pc' = "mode"
          /\ UNCHANGED ret
    /\ UNCHANGED <<cmd, args, address, key, req, arg, flags, data, msg, clientCtx, rsp, txBytes, res, calls>>

\* BuildEnvelope wrapping a copy of the message with its signature cleared
BuildEnvelope_StripsSig ==
    /\ pc = "build"
    /\ \/ /\ Return(Err("BuildTxError", "builder rejected the message"))
          /\ UNCHANGED tx
       \/ /\ tx' = <<BuildTx([msg[1] EXCEPT !.sig = 0], rsp[1].Params.EvmDenom)>>
          /\ pc' = "mode"
          /\ UNCHANGED ret
    /\ UNCHANGED <<cmd, args, address, key, req, arg, flags, data, msg, clientCtx, rsp,
                   txBytes, res, calls>>

\* tx, err := msg.BuildTx(clientCtx.TxConfig.NewTxBuilder(), rsp.Params.EvmDenom)
BuildEnvelope ==
    /\ pc = "build"
    /\ \/ /\ Return(Err("BuildTxError", "builder rejected the message"))
          /\ UNCHANGED tx
       \/ /\ tx' = <<BuildTx(msg[1], rsp[1].Params.EvmDenom)>>
          /\ pc' = "mode"
          /\ UNCHANGED ret
    /\ UNCHANGED <<cmd, args, address, key, req, arg, flags, data, msg, clientCtx, rsp, txBytes, res, calls>>

\* GenerateOnlyMode that prints and then goes on to the broadcast path
GenerateOnlyMode_FallThrough ==
    /\ pc = "mode"
    /\ clientCtx[1].GenerateOnly
    /\ \/ /\ Log(Call("TxJSONEncoder", tx[1], FALSE, Err("EncodeError", "json")))
          /\ Return(Err("EncodeError", "json"))
       \/ /\ calls' = calls \o
                 << Call("TxJSONEncoder", tx[1], TRUE, TxJSONEncoder(tx[1])),
                    Call("PrintString", TxJSONEncoder(tx[1]), TRUE, Nil) >>
          /\ pc' = "encode"
          /\ UNCHANGED ret
    /\ UNCHANGED <<cmd, args, address, key, req, arg, flags, data, msg, clientCtx, rsp, tx, txBytes, res>>

\* if clientCtx.GenerateOnly { ... return clientCtx.PrintString(json) }
GenerateOnlyMode ==
    /\ pc = "mode"
    /\ clientCtx[1].GenerateOnly
    /\ \/ /\ Log(Call("TxJSONEncoder", tx[1], FALSE, Err("EncodeError", "json")))
          /\ Return(Err("EncodeError", "json"))
       \/ \E e \in {Nil, Err("PrintError", "stdout")} :
            /\ calls' = calls \o
                 << Call("TxJSONEncoder", tx[1], TRUE, TxJSONEncoder(tx[1])),
                    Call("PrintString", TxJSONEncoder(tx[1]), e = Nil, e) >>
            /\ Return(e)
    /\ UNCHANGED <<cmd, args, address, key, req, arg, flags, data, msg, clientCtx, rsp, tx, txBytes, res>>

\* the answers the terminal prompt may return: yes, no, and a failed read
Answers ==
    { [ok |-> TRUE, err |-> Nil],
      [ok |-> FALSE, err |-> Nil],
      [ok |-> FALSE, err |-> Err("ReadError", "stdin closed")] }

\* ConfirmationGate cancelling only when the read failed (`|| !ok` left out)
ConfirmationGate_ErrOnly ==
    /\ pc = "mode"
    /\ ~clientCtx[1].GenerateOnly
    /\ ~clientCtx[1].SkipConfirm
    /\ \E answer \in Answers :
         LET shown == << Call("TxJSONEncoder", tx[1], TRUE, TxJSONEncoder(tx[1])),
                         Call("Stderr", TxJSONEncoder(tx[1]), TRUE, Nil),
                         Call("GetConfirmation", "stdin", answer.err = Nil, answer) >>
         IN  IF answer.err # Nil
             THEN /\ calls' = calls \o shown \o << Call("Stderr", CanceledText, TRUE, Nil) >>
                  /\ Return(answer.err)
             ELSE /\ calls' = calls \o shown
                  /\ pc' = "encode"
                  /\ UNCHANGED ret
    /\ UNCHANGED <<cmd, args, address, key, req, arg, flags, data, msg, clientCtx, rsp, tx, txBytes, res>>

\* ConfirmationGate asking a second time after a negative answer
ConfirmationGate_AsksAgain ==
    /\ pc = "mode"
    /\ ~clientCtx[1].GenerateOnly
    /\ ~clientCtx[1].SkipConfirm
    /\ \E first \in Answers, second \in Answers :
         LET ask(a) == Call("GetConfirmation", "stdin", a.err = Nil, a)
             final == IF first.err = Nil /\ ~first.ok THEN second ELSE first
             shown == << Call("TxJSONEncoder", tx[1], TRUE, TxJSONEncoder(tx[1])),
                         Call("Stderr", TxJSONEncoder(tx[1]), TRUE, Nil),
                         ask(first) >>
                      \o (IF first.err = Nil /\ ~first.ok THEN <<ask(second)>> ELSE <<>>)
         IN  IF final.err # Nil \/ ~final.ok
             THEN /\ calls' = calls \o shown \o << Call("Stderr", CanceledText, TRUE, Nil) >>
                  /\ Return(final.err)
             ELSE /\ calls' = calls \o shown
                  /\ pc' = "encode"
                  /\ UNCHANGED ret
    /\ UNCHANGED <<cmd, args, address, key, req, arg, flags, data, msg, clientCtx, rsp, tx, txBytes, res>>

\* ConfirmationGate returning nil when the read of the answer failed
ConfirmationGate_SwallowsReadError ==
    /\ pc = "mode"
    /\ ~clientCtx[1].GenerateOnly
    /\ ~clientCtx[1].SkipConfirm
    /\ \E answer \in Answers :
         LET shown == << Call("TxJSONEncoder", tx[1], TRUE, TxJSONEncoder(tx[1])),
                         Call("Stderr", TxJSONEncoder(tx[1]), TRUE, Nil),
                         Call("GetConfirmation", "stdin", answer.err = Nil, answer) >>
         IN  IF answer.err # Nil \/ ~answer.ok
             THEN /\ calls' = calls \o shown \o << Call("Stderr", CanceledText, TRUE, Nil) >>
                  /\ Return(Nil)
             ELSE /\ calls' = calls \o shown
                  /\ pc' = "encode"
                  /\ UNCHANGED ret
    /\ UNCHANGED <<cmd, args, address, key, req, arg, flags, data, msg, clientCtx, rsp,
                   tx, txBytes, res>>

\* ConfirmationGate prompting before it shows the envelope
ConfirmationGate_PromptFirst ==
    /\ pc = "mode"
    /\ ~clientCtx[1].GenerateOnly
    /\ ~clientCtx[1].SkipConfirm
    /\ \E answer \in Answers :
         LET shown == << Call("GetConfirmation", "stdin", answer.err = Nil, answer),
                         Call("TxJSONEncoder", tx[1], TRUE, TxJSONEncoder(tx[1])),
                         Call("Stderr", TxJSONEncoder(tx[1]), TRUE, Nil) >>
         IN  IF answer.err # Nil \/ ~answer.ok
             THEN /\ calls' = calls \o shown \o << Call("Stderr", CanceledText, TRUE, Nil) >>
                  /\ Return(answer.err)
             ELSE /\ calls' = calls \o shown
                  /\ pc' = "encode"
                  /\ UNCHANGED ret
    /\ UNCHANGED <<cmd, args, address, key, req, arg, flags, data, msg, clientCtx, rsp,
                   tx, txBytes, res>>

\* if !clientCtx.SkipConfirm { print the envelope, prompt, cancel unless confirmed }
ConfirmationGate ==
    /\ pc = "mode"
    /\ ~clientCtx[1].GenerateOnly
    /\ ~clientCtx[1].SkipConfirm
    /\ \/ /\ Log(Call("TxJSONEncoder", tx[1], FALSE, Err("EncodeError", "json")))
          /\ Return(Err("EncodeError", "json"))
       \/ \E answer \in Answers :
            LET shown == << Call("TxJSONEncoder", tx[1], TRUE, TxJSONEncoder(tx[1])),
                            Call("Stderr", TxJSONEncoder(tx[1]), TRUE, Nil),
                            Call("GetConfirmation", "stdin", answer.err = Nil, answer) >>
            IN  IF answer.err # Nil \/ ~answer.ok
                THEN /\ calls' = calls \o shown
                                 \o << Call("Stderr", CanceledText, TRUE, Nil) >>
                     /\ Return(answer.err)
                ELSE /\ calls' = calls \o shown
                     /\ pc' = "encode"
                     /\ UNCHANGED ret
    /\ UNCHANGED <<cmd, args, address, key, req, arg, flags, data, msg, clientCtx, rsp, tx, txBytes, res>>

\* SkipConfirmMode taken whenever --yes is set, generate-only or not
SkipConfirmMode_First ==
    /\ pc = "mode"
    /\ clientCtx[1].SkipConfirm
    /\ pc' = "encode"
    /\ UNCHANGED <<cmd, args, address, key, req, arg, flags, data, msg, clientCtx, rsp, tx, txBytes, res, calls, ret>>

\* clientCtx.SkipConfirm set: the confirmation block is skipped
SkipConfirmMode ==
    /\ pc = "mode"
    /\ ~clientCtx[1].GenerateOnly
    /\ clientCtx[1].SkipConfirm
    /\ pc' = "encode"
    /\ UNCHANGED <<cmd, args, address, key, req, arg, flags, data, msg, clientCtx, rsp, tx, txBytes, res, calls, ret>>

\* txBytes, err := clientCtx.TxConfig.TxEncoder()(tx)
EncodeTx ==
    /\ pc = "encode"
    /\ \/ /\ Log(Call("TxEncoder", tx[1], FALSE, Err("EncodeError", "binary")))
          /\ Return(Err("EncodeError", "binary"))
          /\ UNCHANGED txBytes
       \/ /\ Log(Call("TxEncoder", tx[1], TRUE, TxEncoder(tx[1])))
          /\ txBytes' = <<TxEncoder(tx[1])>>
          /\ pc' = "broadcast"
          /\ UNCHANGED ret
    /\ UNCHANGED <<cmd, args, address, key, req, arg, flags, data, msg, clientCtx, rsp, tx, res>>

\* the acknowledgments the submission service may answer with
Receipts == {[code |-> 0, txhash |-> "H1"], [code |-> 5, txhash |-> "H2"]}

\* Broadcast that submits a second time when the first attempt fails
Broadcast_Retry ==
    /\ pc = "broadcast"
    /\ \/ \E cause \in RemoteCauses :
            /\ Log(Call("BroadcastTx", txBytes[1], FALSE, Err("BroadcastError", cause)))
            /\ IF Count("BroadcastTx") = 0
               THEN pc' = "broadcast" /\ UNCHANGED ret
               ELSE Return(Err("BroadcastError", cause))
            /\ UNCHANGED res
       \/ \E r \in Receipts :
            /\ Log(Call("BroadcastTx", txBytes[1], TRUE, r))
            /\ res' = <<r>>
            /\ pc' = "print"
            /\ UNCHANGED ret
    /\ UNCHANGED <<cmd, args, address, key, req, arg, flags, data, msg, clientCtx, rsp, tx, txBytes>>

\* res, err := clientCtx.BroadcastTx(txBytes)
Broadcast ==
    /\ pc = "broadcast"
    /\ \/ \E cause \in RemoteCauses :
            /\ Log(Call("BroadcastTx", txBytes[1], FALSE, Err("BroadcastError", cause)))
            /\ Return(Err("BroadcastError", cause))
            /\ UNCHANGED res
       \/ \E r \in Receipts :
            /\ Log(Call("BroadcastTx", txBytes[1], TRUE, r))
            /\ res' = <<r>>
            /\ pc' = "print"
            /\ UNCHANGED ret
    /\ UNCHANGED <<cmd, args, address, key, req, arg, flags, data, msg, clientCtx, rsp, tx, txBytes>>

\* return clientCtx.PrintProto(res)
PrintResponse ==
    /\ pc = "print"
    /\ \E e \in {Nil, Err("PrintError", "stdout")} :
         /\ Log(Call("PrintProto", res[1], e = Nil, e))
         /\ Return(e)
    /\ UNCHANGED <<cmd, args, address, key, req, arg, flags, data, msg, clientCtx, rsp, tx, txBytes, res>>

Next ==
    \/ DecodeHex
    \/ Unmarshal
    \/ Validate
    \/ GetClientTxContext
    \/ QueryParams
    \/ BuildEnvelope
    \/ GenerateOnlyMode
    \/ ConfirmationGate
    \/ SkipConfirmMode
    \/ EncodeTx
    \/ Broadcast
    \/ PrintResponse

Spec == Init /\ [][Next]_vars

----------------------------------------------------------------------------
(* Vocabulary of the properties. *)

Done == pc = "done"

HasCtx == Len(clientCtx) = 1

\* the mode the Confirmation Gate selects, once the client context is known
GenerateOnly == HasCtx /\ clientCtx[1].GenerateOnly
SkipConfirm == HasCtx /\ ~clientCtx[1].GenerateOnly /\ clientCtx[1].SkipConfirm
Interactive == HasCtx /\ ~clientCtx[1].GenerateOnly /\ ~clientCtx[1].SkipConfirm

Broadcasts == Count("BroadcastTx")

\* the run was cancelled at the prompt: its last call wrote the cancel line
Canceled ==
    /\ Done
    /\ Len(calls) > 0
    /\ calls[Len(calls)].op = "Stderr"
    /\ calls[Len(calls)].in.format = "text"
    /\ calls[Len(calls)].in = CanceledText

\* the terminal answered, and the answer was negative
AnsweredNo ==
    \E i \in CallsOf("GetConfirmation") : calls[i].ok /\ ~calls[i].out.ok

\* the envelope's text form was handed to the printer
PrintedEnvelope ==
    \E i \in CallsOf("PrintString") : calls[i].in = TxJSONEncoder(tx[1])

\* the text encoding of the envelope was asked for and succeeded
TextEncoded == \E i \in CallsOf("TxJSONEncoder") : calls[i].ok

\* the Params queries of the run that succeeded
ParamsOK == {i \in CallsOf("Params") : calls[i].ok}

----------------------------------------------------------------------------
(* C1: generate-only. *)

\* C1 as stated: a generate-only run that completes without error has printed
\* the envelope's text form and has performed no RPC call at all (the Params
\* query included) and no broadcast.
C1_ZeroRPC ==
    (Done /\ GenerateOnly /\ ret = Nil) =>
        /\ PrintedEnvelope
        /\ RPCCalls = {}
        /\ Broadcasts = 0

\* C1 amended: no generate-only run broadcasts; a generate-only run that
\* completes without error has printed the envelope's text form, and a run that
\* printed it has performed exactly one RPC call, the successful Params query,
\* issued before the print.
C1_OneParamsQuery ==
    GenerateOnly =>
        /\ Broadcasts = 0
        /\ (Done /\ ret = Nil) => PrintedEnvelope
        /\ \A p \in CallsOf("PrintString") :
             /\ calls[p].in = TxJSONEncoder(tx[1])
             /\ Cardinality(RPCCalls) = 1
             /\ \E q \in ParamsOK : q < p /\ RPCCalls = {q}

C1_Witness ==
    Done /\ GenerateOnly /\ ret = Nil /\ PrintedEnvelope /\ Count("Params") = 1

----------------------------------------------------------------------------
(* C2, C3: declining the confirmation. *)

\* C2: in a run with neither generate-only nor skip-confirm, a negative answer
\* of the terminal ends the run in the Canceled outcome with zero broadcasts.
C2_DeclineCancels ==
    (Interactive /\ AnsweredNo) => (Canceled /\ Broadcasts = 0)

C2_Witness == Interactive /\ AnsweredNo /\ Done

\* C3: a run that ends Canceled returns a non-nil error.
C3_CanceledIsNonNil == Canceled => ret # Nil

----------------------------------------------------------------------------
(* C4, C5: the local failures come before everything else. *)

\* nothing after the validation has happened: no client context, no call to
\* any collaborator, no response, no envelope
NothingAfterValidation ==
    /\ ~HasCtx
    /\ calls = <<>>
    /\ rsp = <<>> /\ tx = <<>> /\ txBytes = <<>> /\ res = <<>>

FailsValidation == Len(msg) = 1 /\ ValidateBasicErr(msg[1]) # Nil

\* C4: a run whose decoded transaction fails basic validation returns the
\* validation error, and no RPC call (the Params query), envelope build,
\* prompt or broadcast occurs in it.
C4_ValidationBeforeRPC ==
    FailsValidation =>
        /\ pc \in {"validate", "done"}
        /\ NothingAfterValidation
        /\ Done => ret = ValidateBasicErr(msg[1])

C4_Witness == FailsValidation /\ Done /\ ret.kind = "ValidationError"

BadHex == HexDecodeErr(arg) # "nil"

BadBytes == ~BadHex /\ UnmarshalErr(HexDecode(arg)) # Nil

\* C5: a run whose argument is not valid hex fails with the hex-decode error
\* and reaches no later stage; a run whose bytes fail deserialization fails
\* with that error and reaches no later stage.
C5_DecodeFailuresStop ==
    /\ BadHex =>
         /\ pc \in {"decode", "done"}
         /\ data = <<>> /\ msg = <<>> /\ NothingAfterValidation
         /\ Done => ret = Err("failed to decode ethereum tx hex bytes",
                              HexDecodeErr(arg))
    /\ BadBytes =>
         /\ pc \in {"decode", "unmarshal", "done"}
         /\ msg = <<>> /\ NothingAfterValidation
         /\ Done => ret = UnmarshalErr(HexDecode(arg))

C5_Witness ==
    Done /\ arg = <<"0", "x", "z", "z">> /\ ret.cause = "invalid hex string"

----------------------------------------------------------------------------
(* C6, C7: the Params query and the broadcast. *)

\* C6: whenever a broadcast was attempted, exactly one Params query was issued
\* in the run, it succeeded, it came before the broadcast, and the envelope
\* handed to the broadcast carries the denomination that query returned.
C6_ParamsBeforeBroadcast ==
    \A b \in CallsOf("BroadcastTx") :
        /\ Count("Params") = 1
        /\ \E q \in ParamsOK :
             /\ q < b
             /\ calls[b].in = TxEncoder(tx[1])
             /\ calls[b].in.body.fee.denom = calls[q].out

C6_Witness ==
    \E b \in CallsOf("BroadcastTx") :
        calls[b].in.body.fee.denom = DenomNames[NumDenoms]

\* C7: when the Params query fails the run ends there with the error the
\* query returned: no envelope is built, and the failed query is the last
\* call of the run (no print, no prompt, no broadcast).
C7_ParamsFailureStops ==
    \A q \in CallsOf("Params") :
        ~calls[q].ok =>
            /\ Done
            /\ ret = calls[q].out
            /\ tx = <<>>
            /\ q = Len(calls)

C7_Witness ==
    \E q \in CallsOf("Params") :
        ~calls[q].ok /\ Done /\ ret.cause = CauseNames[NumRemoteErrors]

----------------------------------------------------------------------------
(* C8: at most one broadcast. *)

\* C8: a run broadcasts at most once; when the broadcast fails the run ends
\* with the error the broadcast returned, the failed broadcast is its last
\* call, and no response is printed.
C8_AtMostOneBroadcast ==
    /\ Broadcasts <= 1
    /\ \A b \in CallsOf("BroadcastTx") :
         ~calls[b].ok =>
             /\ Done
             /\ ret = calls[b].out
             /\ b = Len(calls)
             /\ Count("PrintProto") = 0
             /\ res = <<>>

C8_Witness ==
    \E b \in CallsOf("BroadcastTx") : ~calls[b].ok /\ Done

----------------------------------------------------------------------------
(* C9, C10: the mode selector. *)

\* the run has passed the mode selector: the envelope is built and the run
\* is no longer waiting at the selector
PastSelector == Len(tx) = 1 /\ pc # "mode"

----------------------------------------------------------------------------
(* C11: the two ways the prompt cancels. *)

\* the read of the terminal answer failed
ReadFailed == \E i \in CallsOf("GetConfirmation") : ~calls[i].ok

\* C11 as stated: a negative answer and a failed read both end the run in the
\* same Canceled outcome, which is no error (the run returns nil), and nothing
\* is broadcast.
C11_CanceledIsNoError ==
    (Interactive /\ (AnsweredNo \/ ReadFailed)) =>
        /\ Canceled
        /\ ret = Nil
        /\ Broadcasts = 0

\* C11 amended: a negative answer and a failed read both abort the run with
\* the cancel line written and nothing broadcast; after a failed read the run
\* returns the read error, which is an error outcome.
C11_BothCancel ==
    (Interactive /\ (AnsweredNo \/ ReadFailed)) =>
        /\ Canceled
        /\ Broadcasts = 0
        /\ Count("TxEncoder") = 0
        /\ \A i \in CallsOf("GetConfirmation") :
             ~calls[i].ok => (ret = calls[i].out.err /\ ret # Nil)

C11_Witness == Interactive /\ ReadFailed /\ Canceled /\ ret.kind = "ReadError"

----------------------------------------------------------------------------
(* C15: the round trip of the foreign transaction. *)

\* the payload and the signature as they stand in the raw blob
BlobPayload(bytes) == bytes[2]
BlobSignature(bytes) == bytes[3]

\* the foreign transaction re-extracted from an envelope
WrappedTx(t) == t.msgs[1]

RoundTrip(t) ==
    /\ Len(t.msgs) = 1
    /\ WrappedTx(t).payload = BlobPayload(HexDecode(arg))
    /\ WrappedTx(t).sig = BlobSignature(HexDecode(arg))

----------------------------------------------------------------------------
(* C16: the order of the interactive mode. *)

\* C16: in interactive mode every broadcast comes after an affirmative answer
\* read without error, which comes after the envelope's text form was written
\* to the diagnostic stream.
C16_ShowAskBroadcast ==
    Interactive =>
        \A b \in CallsOf("BroadcastTx") :
            \E s \in CallsOf("Stderr"), g \in CallsOf("GetConfirmation") :
                /\ s < g /\ g < b
                /\ calls[s].in.format = "json"
                /\ calls[s].in = TxJSONEncoder(tx[1])
                /\ calls[g].ok /\ calls[g].out.ok

C16_Witness == Interactive /\ Broadcasts = 1 /\ Count("Stderr") = 1

----------------------------------------------------------------------------
(* The Argument Normalizer (accountToHex, formatKeyToHash). *)

\* bytes of an address and of a storage key
AddressLength == 20
HashLength == 32

Rep(c, n) == [i \in 1..n |-> c]

StripPrefix(s) == IF Has0xPrefix(s) THEN SubSeq(s, 3, Len(s)) ELSE s

AllHex(s) == \A i \in DOMAIN s : IsHexDigit(s[i])

ToLower(c) == HexDigits[Nibble(c) + 1]

\* the error accountToHex reports for s, Nil when s is an address
AccountToHexErr(s) ==
    IF Len(StripPrefix(s)) = 2 * AddressLength /\ AllHex(StripPrefix(s))
    THEN Nil
    ELSE Err("InvalidAddress", "not a valid address")

\* the canonical form of an address accountToHex accepts
AccountToHex(s) ==
    <<"0", "x">> \o [i \in 1..(2 * AddressLength) |-> ToLower(StripPrefix(s)[i])]

\* the keys the specification rejects: not hex, or longer than HashLength bytes
FormatKeyErr(s) ==
    IF AllHex(StripPrefix(s)) /\ Len(StripPrefix(s)) <= 2 * HashLength
    THEN Nil
    ELSE Err("InvalidKey", "not a valid storage key")

\* the one value formatKeyToHash returns: the hex digits of the key, cropped
\* from the left to HashLength bytes and left-padded with zeroes
FormatKeyToHash(s) ==
    LET d == IF AllHex(StripPrefix(s)) THEN StripPrefix(s) ELSE <<>>
        c == IF Len(d) > 2 * HashLength
             THEN SubSeq(d, Len(d) - 2 * HashLength + 1, Len(d))
             ELSE d
    IN  <<"0", "x">> \o Rep("0", 2 * HashLength - Len(c))
                     \o [i \in 1..Len(c) |-> ToLower(c[i])]

\* rpctypes.ContextWithHeight: the call context of a height, 0 being "latest"
ContextWithHeight(h) == [height |-> h]

\* context.Background(): a call context that carries no height
Background == [height |-> 0]

----------------------------------------------------------------------------
(* The query commands (QuerySpec). *)

\* largest block height given with --height (0: no height given)
MaxHeight == 2
\* number of distinct responses the query service may answer with
NumResponses == 2

Responses == {[value |-> i] : i \in 1..NumResponses}

AddressArgs ==
    { <<"0", "x">> \o Rep("a", 40),
      Rep("B", 39) \o <<"c">>,
      <<"0", "x">> \o Rep("a", 6),
      <<"0", "x">> \o Rep("z", 40) }

KeyArgs ==
    { <<"0", "x", "0", "1">>,
      <<"F">>,
      <<"0", "x", "z", "z">>,
      <<"0", "x">> \o Rep("1", 66) }

CosmosAddressArgs == { "orai1knzg7jdc49ghnc2pkqg6vks8ccsk6efzfgv6gv", "" }

QueryArgs(c) ==
    CASE c = "storage" -> {<<a, k>> : a \in AddressArgs, k \in KeyArgs}
      [] c = "code" -> {<<a>> : a \in AddressArgs}
      [] c = "params" -> {<<>>}
      [] c = "mappedevm" -> {<<a>> : a \in CosmosAddressArgs}

QueryCmds == {"storage", "code", "params", "mappedevm"}

QueryOps == {"Storage", "Code", "Params", "MappedEvmAddress"}

QueryCalls == {i \in DOMAIN calls : calls[i].op \in QueryOps}

QueryInit ==
    /\ cmd \in QueryCmds
    /\ args \in QueryArgs(cmd)
    /\ flags \in [height : 0..MaxHeight]
    /\ pc = "getctx"
    /\ address = <<>>
    /\ key = <<>>
    /\ req = <<>>
    /\ arg = <<>>
    /\ data = <<>>
    /\ msg = <<>>
    /\ clientCtx = <<>>
    /\ rsp = <<>>
    /\ tx = <<>>
    /\ txBytes = <<>>
    /\ res = <<>>
    /\ calls = <<>>
    /\ ret = Pending

\* clientCtx, err := client.GetClientQueryContext(cmd)
GetClientQueryContext ==
    /\ pc = "getctx"
    /\ cmd \in QueryCmds
    /\ \/ /\ Return(Err("ClientContextError", "bad flags"))
          /\ UNCHANGED clientCtx
       \/ /\ clientCtx' = <<[Height |-> flags.height]>>
          /\ pc' = IF cmd \in {"storage", "code"} THEN "address" ELSE "query"
          /\ UNCHANGED ret
    /\ UNCHANGED <<cmd, args, address, key, req, arg, flags, data, msg, rsp, tx,
                   txBytes, res, calls>>

\* NormalizeAddress going on with the raw argument when accountToHex fails
NormalizeAddress_NoReturn ==
    /\ pc = "address"
    /\ address' = IF AccountToHexErr(args[1]) # Nil
                  THEN <<args[1]>>
                  ELSE <<AccountToHex(args[1])>>
    /\ pc' = IF cmd = "storage" THEN "key" ELSE "request"
    /\ UNCHANGED <<cmd, args, key, req, arg, flags, data, msg, clientCtx, rsp, tx,
                   txBytes, res, calls, ret>>

\* address, err := accountToHex(args[0])
NormalizeAddress ==
    /\ pc = "address"
    /\ IF AccountToHexErr(args[1]) # Nil
       THEN /\ Return(AccountToHexErr(args[1]))
            /\ UNCHANGED address
       ELSE /\ address' = <<AccountToHex(args[1])>>
            /\ pc' = IF cmd = "storage" THEN "key" ELSE "request"
            /\ UNCHANGED ret
    /\ UNCHANGED <<cmd, args, key, req, arg, flags, data, msg, clientCtx, rsp, tx,
                   txBytes, res, calls>>

\* key := formatKeyToHash(args[1])
FormatKey ==
    /\ pc = "key"
    /\ key' = <<FormatKeyToHash(args[2])>>
    /\ pc' = "request"
    /\ UNCHANGED <<cmd, args, address, req, arg, flags, data, msg, clientCtx, rsp, tx,
                   txBytes, res, calls, ret>>

\* req := &types.QueryStorageRequest{...} / &types.QueryCodeRequest{...}
BuildRequest ==
    /\ pc = "request"
    /\ req' = IF cmd = "storage"
              THEN <<[Address |-> address[1], Key |-> key[1]]>>
              ELSE <<[Address |-> address[1]]>>
    /\ pc' = "query"
    /\ UNCHANGED <<cmd, args, address, key, arg, flags, data, msg, clientCtx, rsp, tx,
                   txBytes, res, calls, ret>>

\* Dispatch printing an empty response when the call fails
Dispatch_SwallowsError(op, ctx, request) ==
    /\ \/ \E cause \in RemoteCauses :
            /\ Log(Call(op, [ctx |-> ctx, req |-> request], FALSE,
                        Err("RemoteQueryError", cause)))
            /\ res' = <<[value |-> 0]>>
       \/ \E r \in Responses :
            /\ Log(Call(op, [ctx |-> ctx, req |-> request], TRUE, r))
            /\ res' = <<r>>
    /\ pc' = "print"
    /\ UNCHANGED <<cmd, args, address, key, arg, flags, data, msg, clientCtx, rsp, tx,
                   txBytes, ret>>

\* res, err := queryClient.<op>(ctx, request); if err != nil { return err }
Dispatch(op, ctx, request) ==
    /\ \/ \E cause \in RemoteCauses :
            /\ Log(Call(op, [ctx |-> ctx, req |-> request], FALSE,
                        Err("RemoteQueryError", cause)))
            /\ Return(Err("RemoteQueryError", cause))
            /\ UNCHANGED res
       \/ \E r \in Responses :
            /\ Log(Call(op, [ctx |-> ctx, req |-> request], TRUE, r))
            /\ res' = <<r>>
            /\ pc' = "print"
            /\ UNCHANGED ret
    /\ UNCHANGED <<cmd, args, address, key, arg, flags, data, msg, clientCtx, rsp, tx,
                   txBytes>>

\* QueryStorage calling with the background context
QueryStorage_Background ==
    /\ pc = "query" /\ cmd = "storage"
    /\ Dispatch("Storage", Background, req[1])
    /\ UNCHANGED req

\* queryClient.Storage(rpctypes.ContextWithHeight(clientCtx.Height), req)
QueryStorage ==
    /\ pc = "query" /\ cmd = "storage"
    /\ Dispatch("Storage", ContextWithHeight(clientCtx[1].Height), req[1])
    /\ UNCHANGED req

\* queryClient.Code(rpctypes.ContextWithHeight(clientCtx.Height), req)
QueryCode ==
    /\ pc = "query" /\ cmd = "code"
    /\ Dispatch("Code", ContextWithHeight(clientCtx[1].Height), req[1])
    /\ UNCHANGED req

\* queryClient.Params(rpctypes.ContextWithHeight(clientCtx.Height), &types.QueryParamsRequest{})
QueryModuleParams ==
    /\ pc = "query" /\ cmd = "params"
    /\ req' = <<[Request |-> "QueryParamsRequest"]>>
    /\ Dispatch("Params", ContextWithHeight(clientCtx[1].Height), req'[1])

\* queryClient.MappedEvmAddress(context.Background(), &types.QueryMappedEvmAddressRequest{...})
QueryMappedEvmAddress ==
    /\ pc = "query" /\ cmd = "mappedevm"
    /\ req' = <<[CosmosAddress |-> args[1]]>>
    /\ Dispatch("MappedEvmAddress", Background, req'[1])

\* return clientCtx.PrintProto(res)
PrintQueryResponse ==
    /\ pc = "print"
    /\ cmd \in QueryCmds
    /\ \E e \in {Nil, Err("PrintError", "stdout")} :
         /\ Log(Call("PrintProto", res[1], e = Nil, e))
         /\ Return(e)
    /\ UNCHANGED <<cmd, args, address, key, req, arg, flags, data, msg, clientCtx, rsp,
                   tx, txBytes, res>>

QueryNext ==
    \/ GetClientQueryContext
    \/ NormalizeAddress
    \/ FormatKey
    \/ BuildRequest
    \/ QueryStorage
    \/ QueryCode
    \/ QueryModuleParams
    \/ QueryMappedEvmAddress
    \/ PrintQueryResponse

QuerySpec == QueryInit /\ [][QueryNext]_vars

----------------------------------------------------------------------------
(* C12, C13: the Query Dispatcher. *)

\* the RPC method of each query command
OpOf(c) ==
    CASE c = "storage" -> "Storage"
      [] c = "code" -> "Code"
      [] c = "params" -> "Params"
      [] c = "mappedevm" -> "MappedEvmAddress"

\* the run is past its RPC call
Dispatched == Len(req) = 1 /\ pc \in {"print", "done"}

\* a run makes at most one RPC call, the one of its command, and exactly one
\* once it is past the dispatch
OneCall ==
    /\ Cardinality(QueryCalls) <= 1
    /\ \A i \in QueryCalls : calls[i].op = OpOf(cmd) /\ calls[i].in.req = req[1]
    /\ Dispatched => Cardinality(QueryCalls) = 1

\* C12 as stated: each of the four queries issues exactly one RPC call, and
\* the call carries the height given with --height (0, "latest", when none).
C12_HeightOnEveryQuery ==
    /\ OneCall
    /\ \A i \in QueryCalls : calls[i].in.ctx = ContextWithHeight(flags.height)

\* C12 amended: each of the four queries issues exactly one RPC call; the
\* storage, code and params calls carry the height given with --height (0,
\* "latest", when none), and the mapped-address call carries the background
\* context, whatever height was given.
C12_HeightOnThreeQueries ==
    /\ OneCall
    /\ \A i \in QueryCalls :
         calls[i].in.ctx = IF cmd = "mappedevm"
                           THEN Background
                           ELSE ContextWithHeight(flags.height)

C12_Witness ==
    /\ Done /\ cmd = "storage" /\ flags.height = MaxHeight
    /\ \E i \in QueryCalls : calls[i].in.ctx.height = MaxHeight

\* C13: a failed RPC call ends the run with the error the call returned: it is
\* the last call of the run and nothing is printed; a response is printed only
\* after a successful call and is the response that call returned.
C13_FailureSurfaced ==
    /\ Cardinality(QueryCalls) <= 1
    /\ \A i \in QueryCalls :
         ~calls[i].ok =>
             /\ Done
             /\ ret = calls[i].out
             /\ i = Len(calls)
             /\ res = <<>>
    /\ \A p \in CallsOf("PrintProto") :
         \E i \in QueryCalls : i < p /\ calls[i].ok /\ calls[p].in = calls[i].out

C13_Witness ==
    /\ Done
    /\ \E i \in QueryCalls : ~calls[i].ok /\ ret.kind = "RemoteQueryError"

----------------------------------------------------------------------------
(* C14, C17: the Argument Normalizer in the queries. *)

\* C14: a storage query whose key is longer than 32 bytes or is not hex fails
\* with InvalidKey and issues no Storage call.
C14_InvalidKeyRejected ==
    (cmd = "storage" /\ FormatKeyErr(args[2]) # Nil) =>
        /\ Count("Storage") = 0
        /\ (Done /\ Len(address) = 1) => ret = FormatKeyErr(args[2])

\* C17: in `query storage` and `query code`, when accountToHex fails the run
\* returns its error with no call made (no RPC, nothing printed); and the key
\* is formatted and the request built only after the address was normalized.
C17_AddressFirst ==
    cmd \in {"storage", "code"} =>
        /\ AccountToHexErr(args[1]) # Nil =>
             /\ pc \in {"getctx", "address", "done"}
             /\ calls = <<>>
             /\ address = <<>> /\ key = <<>> /\ req = <<>> /\ res = <<>>
             /\ (Done /\ HasCtx) => ret = AccountToHexErr(args[1])
        /\ (Len(key) = 1 \/ Len(req) = 1) =>
             /\ Len(address) = 1
             /\ AccountToHexErr(args[1]) = Nil
             /\ address[1] = AccountToHex(args[1])
        /\ Len(req) = 1 => req[1].Address = address[1]

C17_Witness ==
    /\ cmd \in {"storage", "code"}
    /\ Done /\ HasCtx /\ ret.kind = "InvalidAddress"

----------------------------------------------------------------------------
(* The mapping transactions (MappingSpec). *)

\* the accounts --from may name; <<>> when the context holds no address
FromAddresses == { <<>>, <<1>>, <<2>>, <<3>> }

\* signer.String()
AccString(a) == IF Len(a) = 0 THEN <<>> ELSE <<"orai1">> \o a

PubkeyArgs == { "AvSl0d9JrHCW4mdEyHvZu076WxLgH0bBVLigUcFm4UjV",
                "A6Vt1m3kq0yQ2cW8rT5uJ9xL4nB7vD1sF0gH2jK3lZ9P",
                "not-a-key",
                "" }

ValidPubkeys == { "AvSl0d9JrHCW4mdEyHvZu076WxLgH0bBVLigUcFm4UjV",
                  "A6Vt1m3kq0yQ2cW8rT5uJ9xL4nB7vD1sF0gH2jK3lZ9P" }

MappingCmds == {"set-mapping-evm", "delete-mapping-evm"}

NewMsgSetMappingEvmAddress(signer, pubkey) ==
    [type |-> "MsgSetMappingEvmAddress", Signer |-> signer, Pubkey |-> pubkey]

NewMsgDeleteMappingEvmAddress(signer) ==
    [type |-> "MsgDeleteMappingEvmAddress", Signer |-> signer, Pubkey |-> ""]

\* msg.ValidateBasic() of the two mapping messages
MappingValidateErr(m) ==
    IF Len(m.Signer) = 0
    THEN Err("ValidationError", "invalid signer address")
    ELSE IF m.type = "MsgSetMappingEvmAddress" /\ m.Pubkey \notin ValidPubkeys
    THEN Err("ValidationError", "invalid pubkey")
    ELSE Nil

MappingInit ==
    /\ cmd \in MappingCmds
    /\ args \in IF cmd = "set-mapping-evm" THEN {<<k>> : k \in PubkeyArgs} ELSE {<<>>}
    /\ flags \in [from : FromAddresses]
    /\ pc = "getctx"
    /\ address = <<>>
    /\ key = <<>>
    /\ req = <<>>
    /\ arg = <<>>
    /\ data = <<>>
    /\ msg = <<>>
    /\ clientCtx = <<>>
    /\ rsp = <<>>
    /\ tx = <<>>
    /\ txBytes = <<>>
    /\ res = <<>>
    /\ calls = <<>>
    /\ ret = Pending

\* clientCtx, err := client.GetClientTxContext(cmd)
MappingGetClientTxContext ==
    /\ pc = "getctx"
    /\ cmd \in MappingCmds
    /\ \/ /\ Return(Err("ClientContextError", "bad flags"))
          /\ UNCHANGED clientCtx
       \/ /\ clientCtx' = <<[FromAddress |-> flags.from]>>
          /\ pc' = "build"
          /\ UNCHANGED ret
    /\ UNCHANGED <<cmd, args, address, key, req, arg, flags, data, msg, rsp, tx,
                   txBytes, res, calls>>

\* signer := clientCtx.GetFromAddress(); fmt.Println("pubkey: ", args[0]);
\* msg := types.NewMsgSetMappingEvmAddress(signer.String(), args[0])
BuildSetMappingMsg ==
    /\ pc = "build"
    /\ cmd = "set-mapping-evm"
    /\ Log(Call("Println", args[1], TRUE, Nil))
    /\ msg' = <<NewMsgSetMappingEvmAddress(AccString(clientCtx[1].FromAddress), args[1])>>
    /\ pc' = "validate"
    /\ UNCHANGED <<cmd, args, address, key, req, arg, flags, data, clientCtx, rsp, tx,
                   txBytes, res, ret>>

\* signer := clientCtx.GetFromAddress();
\* msg := types.NewMsgDeleteMappingEvmAddress(signer.String())
BuildDeleteMappingMsg ==
    /\ pc = "build"
    /\ cmd = "delete-mapping-evm"
    /\ msg' = <<NewMsgDeleteMappingEvmAddress(AccString(clientCtx[1].FromAddress))>>
    /\ pc' = "validate"
    /\ UNCHANGED <<cmd, args, address, key, req, arg, flags, data, clientCtx, rsp, tx,
                   txBytes, res, calls, ret>>

\* ValidateMappingMsg handing the message on whatever ValidateBasic says
ValidateMappingMsg_Ignored ==
    /\ pc = "validate"
    /\ cmd \in MappingCmds
    /\ pc' = "submit"
    /\ UNCHANGED <<cmd, args, address, key, req, arg, flags, data, msg, clientCtx, rsp,
                   tx, txBytes, res, calls, ret>>

\* if err := msg.ValidateBasic(); err != nil { return err }
ValidateMappingMsg ==
    /\ pc = "validate"
    /\ cmd \in MappingCmds
    /\ IF MappingValidateErr(msg[1]) # Nil
       THEN Return(MappingValidateErr(msg[1]))
       ELSE pc' = "submit" /\ UNCHANGED ret
    /\ UNCHANGED <<cmd, args, address, key, req, arg, flags, data, msg, clientCtx, rsp,
                   tx, txBytes, res, calls>>

\* what tx.GenerateOrBroadcastTxCLI may return
SubmitResults ==
    {Nil, Err("GenerateError", "cannot build the transaction")}
        \cup {Err("BroadcastError", c) : c \in RemoteCauses}

\* return tx.GenerateOrBroadcastTxCLI(clientCtx, cmd.Flags(), &msg)
GenerateOrBroadcast ==
    /\ pc = "submit"
    /\ \E e \in SubmitResults :
         /\ Log(Call("GenerateOrBroadcastTxCLI", msg[1], e = Nil, e))
         /\ Return(e)
    /\ UNCHANGED <<cmd, args, address, key, req, arg, flags, data, msg, clientCtx, rsp,
                   tx, txBytes, res>>

MappingNext ==
    \/ MappingGetClientTxContext
    \/ BuildSetMappingMsg
    \/ BuildDeleteMappingMsg
    \/ ValidateMappingMsg
    \/ GenerateOrBroadcast

MappingSpec == MappingInit /\ [][MappingNext]_vars

----------------------------------------------------------------------------
(* C18: the mapping transactions. *)

Submissions == CallsOf("GenerateOrBroadcastTxCLI")

\* C18: the message of `tx set-mapping-evm` and `tx delete-mapping-evm` has
\* the sender of the client context; it is handed to the generate-or-broadcast
\* step at most once, and only when its basic validation succeeded; when the
\* validation fails the run returns the validation error and nothing is
\* handed on.
C18_ValidateThenSubmit ==
    /\ Cardinality(Submissions) <= 1
    /\ Len(msg) = 1 =>
         /\ msg[1].Signer = AccString(flags.from)
         /\ msg[1].type = IF cmd = "set-mapping-evm"
                          THEN "MsgSetMappingEvmAddress"
                          ELSE "MsgDeleteMappingEvmAddress"
         /\ \A i \in Submissions :
              calls[i].in = msg[1] /\ MappingValidateErr(msg[1]) = Nil
         /\ MappingValidateErr(msg[1]) # Nil =>
              /\ pc \in {"validate", "done"}
              /\ Submissions = {}
              /\ Done => ret = MappingValidateErr(msg[1])
    /\ Len(msg) = 0 => Submissions = {}

C18_Witness ==
    /\ Done /\ Len(msg) = 1
    /\ MappingValidateErr(msg[1]) # Nil
    /\ ret.kind = "ValidationError"

====
